---- MODULE Spec2Model ----
(***************************************************************************)
(* Model of two parts of pycompmusic:                                      *)
(*   - PitchExtractMakam.ContourSelection                                  *)
(*     (compmusic/extractors/MakamFeatureExtractor.py), the greedy         *)
(*     longest-first overlap removal over pitch contours and the write-out *)
(*     of the survivors into the pitch / salience timeline;                *)
(*   - the collection restriction of the carnatic client                   *)
(*     (compmusic/dunya/carnatic.py): set_collections, _get_collections    *)
(*     and the fourteen query functions.                                   *)
(*                                                                         *)
(* Python lists and numpy arrays are sequences; Python index k is index    *)
(* k+1 here.  A Python value that may be None is a sequence of length at   *)
(* most one (<<>> is None, <<v>> is v).                                    *)
(***************************************************************************)
EXTENDS Integers, Sequences, FiniteSets, TLC

\* ------------------------------------------------------------------------
\* Bounds of the model
\* ------------------------------------------------------------------------
MaxContours == 3
MaxLen == 3
MaxStart == 2

\* ------------------------------------------------------------------------
\* Program constants
\* ------------------------------------------------------------------------
hopSize == 128

VARIABLES
    pitchContours,            \* the caller's list of bin arrays (working set)
    contourSaliences,         \* the caller's list of salience arrays (working set)
    startTimes,               \* the caller's start times, as startTimes[i] * sampleRate
    duration,                 \* the caller's duration, as duration * sampleRate
    startSamples,             \* local: start of each working-set contour
    pitchContours_noOverlap,  \* local: accepted bin arrays
    startSamples_noOverlap,   \* local: accepted starts
    contourSaliences_noOverlap, \* local: accepted salience arrays
    lens_noOverlap,           \* local: accepted lengths
    acc_idx,                  \* local: claimed sample indices
    pitch,                    \* local: output timeline
    salience,                 \* local: output timeline
    pc,                       \* "loop", "done" (returned) or "error" (raised)
    calls,                    \* number of the call in progress (1 or 2)
    firstResult,              \* <<>> or <<r>>, r what the first call returned
    origContours,             \* history: pitchContours as passed to the first call
    origSaliences,            \* history: contourSaliences as passed to the first call
    ids,                      \* history: input position of each working-set contour
    ids_noOverlap,            \* history: input position of each accepted contour
    COLLECTIONS,              \* carnatic.COLLECTIONS: <<>> (None) or <<list>>
    request,                  \* <<>> or <<r>>, r the last request handed to conn
    raised                    \* whether the last client call raised ValueError

selVars == <<pitchContours, contourSaliences, startTimes, duration, startSamples,
             pitchContours_noOverlap, startSamples_noOverlap,
             contourSaliences_noOverlap, lens_noOverlap, acc_idx, pitch, salience,
             pc, calls, firstResult, origContours, origSaliences, ids,
             ids_noOverlap>>
clientVars == <<COLLECTIONS, request, raised>>
vars == <<selVars, clientVars>>

\* ------------------------------------------------------------------------
\* Helpers
\* ------------------------------------------------------------------------
Min(S) == CHOOSE x \in S : \A y \in S : x <= y
Max(S) == CHOOSE x \in S : \A y \in S : x >= y

\* list.pop(i) leaves the list without its element at (1-based) position i
RemoveAt(s, i) == [j \in 1..(Len(s) - 1) |-> IF j < i THEN s[j] ELSE s[j + 1]]

\* sorted(list(S)) for a set of integers
RECURSIVE Sorted(_)
Sorted(S) == IF S = {} THEN <<>> ELSE <<Min(S)>> \o Sorted(S \ {Min(S)})

\* xrange(a, b) as a set
Range(a, b) == {x \in a..(b - 1) : TRUE}

\* int(ceil(x / hopSize)) for an integer x >= 0
CeilDiv(x, d) == (x + d - 1) \div d

\* int(round(x / float(hopSize))) for an integer x >= 0 (halves round up)
RoundDiv(x, d) == (2 * x + d) \div (2 * d)

numSamples == CeilDiv(duration, hopSize)

StartSample(t) == RoundDiv(t, hopSize)

\* ------------------------------------------------------------------------
\* ContourSelection: one iteration of the selection loop (lines 119-162)
\* ------------------------------------------------------------------------

\* lens = [len(k) for k in pitchContours]
Lens(pcs) == [i \in 1..Len(pcs) |-> Len(pcs[i])]

LongIdxLast(lens) ==
    Max({i \in 1..Len(lens) : \A j \in 1..Len(lens) : lens[j] <= lens[i]})

LongIdxShortest(lens) ==
    Min({i \in 1..Len(lens) : \A j \in 1..Len(lens) : lens[j] >= lens[i]})

\* long_idx = lens.index(max(lens)): the first position holding the maximum
LongIdx(lens) ==
    Min({i \in 1..Len(lens) : \A j \in 1..Len(lens) : lens[j] <= lens[i]})

AccRangeShort(start, len) == Range(start, start + len - 1)

AccRangeLong(start, len) == Range(start, start + len + 1)

\* the samples xrange(start, start + len) appended to acc_idx
AccRange(start, len) == Range(start, start + len)

\* curr_samp_idx_noOverlap = sorted(list(set(curr_samp_idx) - set(acc_idx)))
NoOverlapIdx(start, len, acc) == Sorted(Range(start, start + len) \ acc)

\* startSamples[i] = curr_samp_idx_noOverlap[0]
NewStart(noOverlap) == noOverlap[1]

\* keep_idx = [curr_samp_idx.index(c) for c in curr_samp_idx_noOverlap],
\* as Python (0-based) positions; curr_samp_idx = range(start, start + len)
KeepIdx(start, noOverlap) == [k \in 1..Len(noOverlap) |-> noOverlap[k] - start]

\* array(a)[keep_idx] raises IndexError when a position is not in the array
IndexOk(a, keep_idx) == \A k \in 1..Len(keep_idx) : keep_idx[k] < Len(a)

TakeFirst(a, keep_idx) == [k \in 1..Len(keep_idx) |-> a[k]]

\* array(a)[keep_idx]
Take(a, keep_idx) == [k \in 1..Len(keep_idx) |-> a[keep_idx[k] + 1]]

\* The overlap removal "for i in xrange(0, len(startSamples))" from position i
\* on.  st holds the three working lists, rmv_idx and whether an IndexError
\* was raised (the loop stops there, the lists keep what was assigned so far).
RECURSIVE RemoveOverlaps(_, _, _, _)
RemoveOverlaps(i, st, lens, acc) ==
    IF i > Len(st.starts) \/ st.err THEN st
    ELSE LET noOverlap == NoOverlapIdx(st.starts[i], lens[i], acc)
             keep_idx == KeepIdx(st.starts[i], noOverlap)
         IN  IF noOverlap # <<>>
             THEN IF ~IndexOk(st.sals[i], keep_idx)
                  THEN [st EXCEPT !.starts[i] = NewStart(noOverlap),
                                  !.pcs[i] = Take(st.pcs[i], keep_idx),
                                  !.err = TRUE]
                  ELSE RemoveOverlaps(i + 1,
                         [st EXCEPT !.starts[i] = NewStart(noOverlap),
                                    !.pcs[i] = Take(st.pcs[i], keep_idx),
                                    !.sals[i] = Take(st.sals[i], keep_idx)],
                         lens, acc)
             ELSE RemoveOverlaps(i + 1, [st EXCEPT !.rmv = st.rmv \cup {i}],
                                 lens, acc)

\* "for r in sorted(rmv_idx, reverse=True): list.pop(r)"
RECURSIVE PopAll(_, _)
PopAll(s, rmv) ==
    IF rmv = {} THEN s ELSE PopAll(RemoveAt(s, Max(rmv)), rmv \ {Max(rmv)})

Iterate ==
    /\ pc = "loop"
    /\ pitchContours # <<>>
    /\ LET lens0 == Lens(pitchContours)
           long_idx == LongIdx(lens0)
           start == startSamples[long_idx]
           len == lens0[long_idx]
           lens == RemoveAt(lens0, long_idx)
           acc == acc_idx \cup AccRange(start, len)
           st0 == [pcs |-> RemoveAt(pitchContours, long_idx),
                   sals |-> RemoveAt(contourSaliences, long_idx),
                   starts |-> RemoveAt(startSamples, long_idx),
                   rmv |-> {},
                   err |-> FALSE]
           st == RemoveOverlaps(1, st0, lens, acc)
       IN  /\ pitchContours_noOverlap' =
                 Append(pitchContours_noOverlap, pitchContours[long_idx])
           /\ contourSaliences_noOverlap' =
                 Append(contourSaliences_noOverlap, contourSaliences[long_idx])
           /\ startSamples_noOverlap' = Append(startSamples_noOverlap, start)
           /\ lens_noOverlap' = Append(lens_noOverlap, len)
           /\ ids_noOverlap' = Append(ids_noOverlap, ids[long_idx])
           /\ acc_idx' = acc
           /\ IF st.err
              THEN /\ pc' = "error"
                   /\ pitchContours' = st.pcs
                   /\ contourSaliences' = st.sals
                   /\ startSamples' = st.starts
                   /\ ids' = RemoveAt(ids, long_idx)
              ELSE /\ pc' = "loop"
                   /\ pitchContours' = PopAll(st.pcs, st.rmv)
                   /\ contourSaliences' = PopAll(st.sals, st.rmv)
                   /\ startSamples' = PopAll(st.starts, st.rmv)
                   /\ ids' = PopAll(RemoveAt(ids, long_idx), st.rmv)
    /\ UNCHANGED <<startTimes, duration, pitch, salience, calls, firstResult,
                   origContours, origSaliences, clientVars>>

\* ------------------------------------------------------------------------
\* ContourSelection: the write-out (lines 164-174)
\* ------------------------------------------------------------------------

ZeroFillShort(n) == [i \in 1..(n - 1) |-> 0]

\* array([0.] * n)
ZeroFill(n) == [i \in 1..n |-> 0]

\* a Python slice bound on an array of length n
SliceBound(x, n) ==
    IF x < 0 THEN (IF x + n < 0 THEN 0 ELSE x + n) ELSE (IF x > n THEN n ELSE x)

\* "a[lo:hi] = src" on a numpy array: src is copied when it has the length of
\* the slice, repeated when it has one element, and ValueError is raised
\* otherwise.  The result is <<>> for the error and <<a'>> otherwise.
SliceAssign(a, lo, hi, src) ==
    LET n == Len(a)
        l == SliceBound(lo, n)
        h == SliceBound(hi, n)
        m == IF h > l THEN h - l ELSE 0
    IN  IF Len(src) = m
        THEN << [i \in 1..n |-> IF i > l /\ i <= l + m THEN src[i - l] ELSE a[i]] >>
        ELSE IF Len(src) = 1
             THEN << [i \in 1..n |-> IF i > l /\ i <= l + m THEN src[1] ELSE a[i]] >>
             ELSE <<>>

\* "for i in xrange(0, len(pitchContours_noOverlap))" from position i on; the
\* result is <<>> when an assignment raised and <<[pitch, salience]>> otherwise.
RECURSIVE Accumulate(_, _, _)
Accumulate(i, p, s) ==
    IF i > Len(pitchContours_noOverlap) THEN << [pitch |-> p, salience |-> s] >>
    ELSE LET startSample == startSamples_noOverlap[i]
             endSample == startSamples_noOverlap[i] + Len(pitchContours_noOverlap[i])
             p1 == SliceAssign(p, startSample, endSample, pitchContours_noOverlap[i])
             s1 == SliceAssign(s, startSample, endSample, contourSaliences_noOverlap[i])
         IN  IF p1 = <<>> \/ s1 = <<>> THEN <<>>
             ELSE Accumulate(i + 1, p1[1], s1[1])

WriteOut ==
    /\ pc = "loop"
    /\ pitchContours = <<>>
    /\ LET r == Accumulate(1, ZeroFill(numSamples), ZeroFill(numSamples))
       IN  IF r = <<>>
           THEN /\ pc' = "error"
                /\ UNCHANGED <<pitch, salience>>
           ELSE /\ pc' = "done"
                /\ pitch' = r[1].pitch
                /\ salience' = r[1].salience
    /\ UNCHANGED <<pitchContours, contourSaliences, startTimes, duration,
                   startSamples, pitchContours_noOverlap, startSamples_noOverlap,
                   contourSaliences_noOverlap, lens_noOverlap, acc_idx, calls,
                   firstResult, origContours, origSaliences, ids, ids_noOverlap,
                   clientVars>>

\* ------------------------------------------------------------------------
\* A second call of ContourSelection on the same argument objects
\* (lines 104-118): the locals are set up again, the caller's lists are
\* what the first call left of them.
\* ------------------------------------------------------------------------
CallAgain ==
    /\ pc = "done"
    /\ calls = 1
    /\ calls' = 2
    /\ firstResult' = << [pitch |-> pitch, salience |-> salience] >>
    /\ startSamples' = [i \in 1..Len(startTimes) |-> StartSample(startTimes[i])]
    /\ pitchContours_noOverlap' = <<>>
    /\ startSamples_noOverlap' = <<>>
    /\ contourSaliences_noOverlap' = <<>>
    /\ lens_noOverlap' = <<>>
    /\ acc_idx' = {}
    /\ pitch' = <<>>
    /\ salience' = <<>>
    /\ pc' = "loop"
    /\ ids' = [i \in 1..Len(pitchContours) |-> i]
    /\ ids_noOverlap' = <<>>
    /\ UNCHANGED <<pitchContours, contourSaliences, startTimes, duration,
                   origContours, origSaliences, clientVars>>

\* ------------------------------------------------------------------------
\* Inputs
\* ------------------------------------------------------------------------

\* the bin and the salience of input contour i at (1-based) offset k: every
\* value names its contour and its offset
BinAt(i, k) == 10 * i + k
SalAt(i, k) == 100 + 10 * i + k

\* a duration (times sampleRate) of MaxStart + 1 hops and one audio sample more
Durations == {(MaxStart + 1) * hopSize + 1}

ClientIdle ==
    /\ COLLECTIONS = <<>>
    /\ request = <<>>
    /\ raised = FALSE

\* The state when the selection loop of the first call is reached, for n
\* contours with the given start samples, bin lengths and salience lengths.
Entry(n, starts, blens, slens, d) ==
    /\ pitchContours = [i \in 1..n |-> [k \in 1..blens[i] |-> BinAt(i, k)]]
    /\ contourSaliences = [i \in 1..n |-> [k \in 1..slens[i] |-> SalAt(i, k)]]
    /\ startTimes = [i \in 1..n |-> starts[i] * hopSize]
    /\ duration = d
    /\ startSamples = [i \in 1..n |-> StartSample(starts[i] * hopSize)]
    /\ pitchContours_noOverlap = <<>>
    /\ startSamples_noOverlap = <<>>
    /\ contourSaliences_noOverlap = <<>>
    /\ lens_noOverlap = <<>>
    /\ acc_idx = {}
    /\ pitch = <<>>
    /\ salience = <<>>
    /\ pc = "loop"
    /\ calls = 1
    /\ firstResult = <<>>
    /\ origContours = pitchContours
    /\ origSaliences = contourSaliences
    /\ ids = [i \in 1..n |-> i]
    /\ ids_noOverlap = <<>>

\* Contours as the contour tracker delivers them: len(bins) = len(saliences) > 0
Init ==
    /\ \E n \in 0..MaxContours :
       \E starts \in [1..n -> 0..MaxStart] :
       \E blens \in [1..n -> 1..MaxLen] :
       \E d \in Durations :
          Entry(n, starts, blens, blens, d)
    /\ ClientIdle

\* Any contours: a length may be 0, and one contour's saliences may be one
\* shorter or one longer than its bins
InitAny ==
    /\ \E n \in 0..MaxContours :
       \E starts \in [1..n -> 0..MaxStart] :
       \E blens \in [1..n -> 0..MaxLen] :
       \E bad \in 0..n :
       \E delta \in {-1, 1} :
       \E d \in Durations :
          /\ bad = 0 => delta = 1
          /\ bad # 0 => blens[bad] + delta >= 0
          /\ Entry(n, starts, blens,
                   [i \in 1..n |-> IF i = bad THEN blens[i] + delta ELSE blens[i]],
                   d)
    /\ ClientIdle

Next == Iterate \/ WriteOut \/ CallAgain

Spec == Init /\ [][Next]_vars

SpecAny == InitAny /\ [][Next]_vars

\* ------------------------------------------------------------------------
\* The carnatic client (compmusic/dunya/carnatic.py)
\* ------------------------------------------------------------------------
MaxCollections == 2

Mbids == {"c1", "c2"}

\* the values handed to set_collections: lists of mbids, and values of other
\* types (a tuple, a str, None)
CollectionLists == UNION {[1..n -> Mbids] : n \in 0..MaxCollections}
Arguments ==
    {[type |-> "list", value |-> l] : l \in CollectionLists}
    \cup {[type |-> "tuple", value |-> l] : l \in {<<"c1">>, <<"c1", "c2">>}}
    \cup {[type |-> "str", value |-> <<"c1">>], [type |-> "NoneType", value |-> <<>>]}

\* ','.join(l)
RECURSIVE Join(_)
Join(l) ==
    IF l = <<>> THEN ""
    ELSE IF Len(l) = 1 THEN l[1]
         ELSE l[1] \o "," \o Join(Tail(l))

set_collections(collections) ==
    /\ IF collections.type # "list"
       THEN /\ raised' = TRUE
            /\ UNCHANGED COLLECTIONS
       ELSE /\ raised' = FALSE
            /\ COLLECTIONS' = <<collections.value>>
    /\ UNCHANGED <<request, selVars>>

\* extra_headers of _get_collections: <<>> (None) or <<dict>>, the dict as the
\* set of its (key, value) pairs; "if COLLECTIONS" is false for None and for []
_get_collections ==
    IF COLLECTIONS # <<>> /\ COLLECTIONS[1] # <<>>
    THEN << {<<"Dunya-Collection", Join(COLLECTIONS[1])>>} >>
    ELSE <<>>

\* conn._get_paged_json(path, extra_headers=...) and
\* conn._dunya_query_json(path, extra_headers=...): the request conn is given
Query(fn, extra_headers) ==
    /\ request' = << [fn |-> fn, extra_headers |-> extra_headers] >>
    /\ raised' = FALSE
    /\ UNCHANGED <<COLLECTIONS, selVars>>

get_recordings == Query("get_recordings", _get_collections)
get_recording == Query("get_recording", _get_collections)
get_artists == Query("get_artists", _get_collections)
get_artist == Query("get_artist", _get_collections)
get_concerts == Query("get_concerts", _get_collections)
get_concert == Query("get_concert", _get_collections)
\* the calls below pass no extra_headers to conn
get_works == Query("get_works", <<>>)
get_work == Query("get_work", <<>>)
get_raagas == Query("get_raagas", <<>>)
get_raaga == Query("get_raaga", <<>>)
get_taalas == Query("get_taalas", <<>>)
get_taala == Query("get_taala", <<>>)
get_instruments == Query("get_instruments", <<>>)
get_instrument == Query("get_instrument", <<>>)

\* the module as imported; ContourSelection is not running
InitClient ==
    /\ ClientIdle
    /\ Entry(0, <<>>, <<>>, <<>>, 0)

NextClient ==
    \/ \E a \in Arguments : set_collections(a)
    \/ get_recordings
    \/ get_recording
    \/ get_artists
    \/ get_artist
    \/ get_concerts
    \/ get_concert
    \/ get_works
    \/ get_work
    \/ get_raagas
    \/ get_raaga
    \/ get_taalas
    \/ get_taala
    \/ get_instruments
    \/ get_instrument

SpecClient == InitClient /\ [][NextClient]_vars

\* ------------------------------------------------------------------------
\* Properties
\* ------------------------------------------------------------------------

\* the input contours of the first call, by position in the input list
Inputs == 1..Len(origContours)
InputStart(c) == StartSample(startTimes[c])
InputRange(c) == Range(InputStart(c), InputStart(c) + Len(origContours[c]))
Touched == UNION {InputRange(c) : c \in Inputs}
Timeline == Range(0, numSamples)

\* the accepted contours, by position in the accepted list
Accepted == 1..Len(pitchContours_noOverlap)
AcceptedRange(j) ==
    Range(startSamples_noOverlap[j],
          startSamples_noOverlap[j] + Len(pitchContours_noOverlap[j]))

\* the working set, by position
Working == 1..Len(pitchContours)
WorkingRange(p) == Range(startSamples[p], startSamples[p] + Len(pitchContours[p]))

LoopEnded == pitchContours = <<>>
InputInRange == \A c \in Inputs : InputRange(c) \subseteq Timeline
AcceptedTrimmed(j) ==
    Len(pitchContours_noOverlap[j]) < Len(origContours[ids_noOverlap[j]])

\* C1: when the selection loop has ended, no two accepted contours' post-trim
\* ranges [start_sample, start_sample + len) share a sample index.
C1_AcceptedDisjoint ==
    LoopEnded =>
        \A j \in Accepted : \A k \in Accepted :
            j # k => AcceptedRange(j) \cap AcceptedRange(k) = {}

\* C1 witness: the loop has ended with two accepted contours, one of them
\* trimmed because it overlapped the other.
C1_Witness ==
    /\ LoopEnded
    /\ calls = 1
    /\ \E j \in Accepted : \E k \in Accepted :
          /\ j < k
          /\ AcceptedTrimmed(k)
          /\ InputRange(ids_noOverlap[j]) \cap InputRange(ids_noOverlap[k]) # {}

\* C2: for input contours whose ranges lie inside [0, numSamples), when the
\* selection loop has ended the union of the accepted contours' post-trim
\* ranges is exactly the set of sample indices some input contour covers.
C2_FullCoverage ==
    (calls = 1 /\ InputInRange /\ LoopEnded) =>
        UNION {AcceptedRange(j) : j \in Accepted} = Touched

\* C2 witness: the loop has ended on an in-range input of which one contour was
\* trimmed and another dropped.
C2_Witness ==
    /\ calls = 1
    /\ InputInRange
    /\ LoopEnded
    /\ \E j \in Accepted : AcceptedTrimmed(j)
    /\ Len(pitchContours_noOverlap) < Len(origContours)

\* C3: in every iteration the contour moved to the accepted list has the
\* maximum current length of the working set and, among those of that length,
\* stood earliest in the input list.
C3_LongestEarliestFirst ==
    [][Len(ids_noOverlap') = Len(ids_noOverlap) + 1 =>
        \E p \in Working :
            /\ ids_noOverlap'[Len(ids_noOverlap')] = ids[p]
            /\ pitchContours_noOverlap'[Len(ids_noOverlap')] = pitchContours[p]
            /\ startSamples_noOverlap'[Len(ids_noOverlap')] = startSamples[p]
            /\ \A q \in Working :
                  /\ Len(pitchContours[q]) <= Len(pitchContours[p])
                  /\ Len(pitchContours[q]) = Len(pitchContours[p])
                        => ids[p] <= ids[q]]_vars

\* C3 witness: three contours were accepted; the second and the third had both
\* been trimmed to the same length, and the one earlier in the input went first.
C3_Witness ==
    /\ calls = 1
    /\ Len(ids_noOverlap) = 3
    /\ AcceptedTrimmed(2)
    /\ AcceptedTrimmed(3)
    /\ lens_noOverlap[2] = lens_noOverlap[3]
    /\ ids_noOverlap[2] < ids_noOverlap[3]

\* C4: the returned pitch and salience have numSamples entries each, and hold
\* 0 at every index no input contour covers (all of them for an empty input).
C4_ZeroFill ==
    pc = "done" =>
        /\ Len(pitch) = numSamples
        /\ Len(salience) = numSamples
        /\ \A i \in Timeline :
              i \notin Touched => pitch[i + 1] = 0 /\ salience[i + 1] = 0
        /\ origContours = <<>> =>
              \A i \in Timeline : pitch[i + 1] = 0 /\ salience[i + 1] = 0

\* C4 witness: a call returned a timeline with a written index and an index
\* that no input contour covers.
C4_Witness ==
    /\ pc = "done"
    /\ calls = 1
    /\ \E i \in Timeline : i \notin Touched
    /\ \E i \in Timeline : pitch[i + 1] # 0

\* C5: ContourSelection leaves the caller's pitchContours and contourSaliences
\* as they were, and a second call on the same objects returns what the first
\* call returned.
C5_InputNotMutated ==
    pc = "done" =>
        /\ pitchContours = origContours
        /\ contourSaliences = origSaliences
        /\ calls = 2 => [pitch |-> pitch, salience |-> salience] = firstResult[1]

Malformed(c) ==
    Len(origContours[c]) # Len(origSaliences[c]) \/ Len(origContours[c]) = 0

\* C6: an input contour with len(bins) # len(saliences) or of length 0 makes
\* the call end in an error before the first iteration: no contour is accepted
\* and no timeline is returned.
C6_MalformedRejected ==
    (calls = 1 /\ \E c \in Inputs : Malformed(c)) =>
        /\ pitchContours_noOverlap = <<>>
        /\ pc # "done"

\* C7: when an accepted contour's range is not inside [0, numSamples), the call
\* does not return a timeline (it ends in an error).
C7_OutOfRangeRaises ==
    (\E j \in Accepted : ~(AcceptedRange(j) \subseteq Timeline)) => pc # "done"

\* the extra_headers that carry the restriction in force: none before the
\* first successful set_collections call, the joined list after it (for an
\* empty list, an empty header or no header)
RestrictionHeaders ==
    IF COLLECTIONS = <<>> THEN {<<>>}
    ELSE {<< {<<"Dunya-Collection", Join(COLLECTIONS[1])>>} >>}
         \cup (IF COLLECTIONS[1] = <<>> THEN {<<>>} ELSE {})

\* C8: every query sends the Dunya-Collection header made of the list of the
\* most recent successful set_collections call (none before the first such
\* call), and a set_collections call with a non-list argument raises
\* ValueError and leaves the restriction as it was.
C8_QueriesRestricted ==
    [][/\ request' # request => request'[1].extra_headers \in RestrictionHeaders
       /\ raised' => COLLECTIONS' = COLLECTIONS]_vars

\* C9: trimming keeps values aligned to their sample index: every working-set
\* and accepted contour holds, at each of its positions, the bin and salience
\* its input contour held at that sample, and every index of the returned
\* timeline that an accepted contour covers holds the bin and the salience of
\* one input contour at offset i minus that contour's original start_sample.
C9_Aligned ==
    calls = 1 =>
        /\ \A p \in Working :
              /\ Len(contourSaliences[p]) = Len(pitchContours[p])
              /\ pc = "loop" =>
                    /\ Len(pitchContours[p]) = Cardinality(InputRange(ids[p]) \ acc_idx)
                    /\ startSamples[p] = Min(InputRange(ids[p]) \ acc_idx)
              /\ \A k \in 1..Len(pitchContours[p]) :
                    LET o == startSamples[p] + k - InputStart(ids[p])
                    IN  /\ o \in 1..Len(origContours[ids[p]])
                        /\ pitchContours[p][k] = origContours[ids[p]][o]
                        /\ contourSaliences[p][k] = origSaliences[ids[p]][o]
        /\ \A j \in Accepted :
              /\ Len(contourSaliences_noOverlap[j]) = Len(pitchContours_noOverlap[j])
              /\ \A k \in 1..Len(pitchContours_noOverlap[j]) :
                    LET o == startSamples_noOverlap[j] + k - InputStart(ids_noOverlap[j])
                    IN  /\ o \in 1..Len(origContours[ids_noOverlap[j]])
                        /\ pitchContours_noOverlap[j][k] = origContours[ids_noOverlap[j]][o]
                        /\ contourSaliences_noOverlap[j][k] = origSaliences[ids_noOverlap[j]][o]
        /\ pc = "done" =>
              \A i \in Timeline :
                 (\E j \in Accepted : i \in AcceptedRange(j)) =>
                    \E c \in Inputs :
                       /\ i \in InputRange(c)
                       /\ pitch[i + 1] = origContours[c][i - InputStart(c) + 1]
                       /\ salience[i + 1] = origSaliences[c][i - InputStart(c) + 1]

\* C9 witness: a call returned a timeline holding, after index 0, the values of
\* a contour whose leading samples were trimmed away.
C9_Witness ==
    /\ pc = "done"
    /\ calls = 1
    /\ \E j \in Accepted :
          /\ startSamples_noOverlap[j] > InputStart(ids_noOverlap[j])
          /\ AcceptedRange(j) \subseteq Timeline
          /\ pitch[startSamples_noOverlap[j] + 1] = pitchContours_noOverlap[j][1]

\* C10: at the end of every iteration, for every contour left in the working
\* set, the range [start_sample, start_sample + len) is exactly the set of its
\* samples that survived trimming, and is disjoint from acc_idx.
C10_WorkingContiguous ==
    (calls = 1 /\ pc = "loop") =>
        \A p \in Working :
            /\ WorkingRange(p) = InputRange(ids[p]) \ acc_idx
            /\ WorkingRange(p) \cap acc_idx = {}

\* C10 witness: after two iterations a contour that was trimmed is still in
\* the working set.
C10_Witness ==
    /\ calls = 1
    /\ pc = "loop"
    /\ Len(ids_noOverlap) = 2
    /\ \E p \in Working :
          /\ WorkingRange(p) # InputRange(ids[p])
          /\ WorkingRange(p) # {}
          /\ startSamples[p] > InputStart(ids[p])

====
